---- MODULE Spec2Model ----
(***************************************************************************)
(* Approval-gated document mutation of TheDocAgent.                        *)
(*                                                                         *)
(* The model follows src/agent/editors/base.py (ApprovalTracker and        *)
(* DocumentEditor.execute), src/agent/approval_dialog.py (the decision     *)
(* channel: request_approval and the stdin prompts),                       *)
(* src/agent/repl.py (the modal-dialog side of the channel) and            *)
(* src/agent/editors/xlsx_editor.py (the write-cell physical write).       *)
(* The functions studied on their own follow                               *)
(* src/agent/tools/approval_tools.py (the xlsx tools),                     *)
(* src/agent/editors/docx_editor.py (replace-text and its diff) and        *)
(* src/agent/editors/diff_display.py (the text diff).                      *)
(*                                                                         *)
(* A worker is one thread running tool calls.  Every shared-memory access  *)
(* of a call is one step of the worker, so that the steps of two workers   *)
(* and of the UI thread interleave the way CPython threads can.            *)
(***************************************************************************)
EXTENDS Naturals, Sequences, FiniteSets

\* ------------------------------------------------------------------ bounds

\* Number of ApprovalRequest objects one behaviour may create.
MaxRequests == 2

\* Number of calls of a function tool in one behaviour.
MaxToolCalls == 3

\* ------------------------------------------------------------------ values

\* Python's None for the optional string fields of an operation.
None == "<None>"

\* A Python value of type Any (old_value / new_value): its type and its str().
NoneV == [t |-> "none", s |-> "None"]

Digits == <<"0", "1", "2", "3", "4", "5", "6", "7", "8", "9">>

IntV(n) == [t |-> "int", s |-> Digits[n + 1]]

StrV(s) == [t |-> "str", s |-> s]

\* Python truthiness of a value: None, 0 and "" are falsy.
Truthy(v) ==
    ~ \/ v.t = "none"
      \/ (v.t = "int" /\ v.s = "0")
      \/ (v.t = "str" /\ v.s = "")

\* (text or "")
OrEmpty(s) == IF s = None THEN "" ELSE s

\* str(value or "")
StrOrEmpty(v) == IF Truthy(v) THEN v.s ELSE ""

\* The cell values the tools are asked to write.
NewValues == {IntV(1)}

Values == {NoneV} \cup NewValues

\* ------------------------------------------------------------------ paths

\* A path: absolute or relative, and its components.
Path(abs, parts) == [abs |-> abs, parts |-> parts]

Roots == { <<"w">>, <<"w", "sub">> }

Paths ==
    { Path(FALSE, <<"a.xlsx">>),
      Path(FALSE, <<"..", "a.xlsx">>),
      Path(TRUE, <<"etc", "passwd">>),
      Path(TRUE, <<"w", "a.xlsx">>) }

\* Path.resolve(): fold the components, ".." dropping the last one kept
\* (and staying at "/" when nothing is left).
RECURSIVE Normalize(_, _)
Normalize(acc, parts) ==
    IF parts = <<>> THEN acc
    ELSE IF Head(parts) = ".."
         THEN Normalize(IF acc = <<>> THEN <<>> ELSE SubSeq(acc, 1, Len(acc) - 1),
                        Tail(parts))
         ELSE Normalize(Append(acc, Head(parts)), Tail(parts))

\* target.relative_to(root) succeeds
IsUnder(r, target) ==
    /\ Len(target) >= Len(r)
    /\ SubSeq(target, 1, Len(r)) = r

\* _resolve without the relative_to(root) containment check.
resolve_unchecked(r, p) ==
    [raised |-> FALSE,
     target |-> Normalize(<<>>, IF p.abs THEN p.parts ELSE r \o p.parts)]

\* DocumentEditor._resolve: the resolved target, or the RuntimeError.
resolve(r, p) ==
    LET target == Normalize(<<>>, IF p.abs THEN p.parts ELSE r \o p.parts)
    IN  IF IsUnder(r, target)
        THEN [raised |-> FALSE, target |-> target]
        ELSE [raised |-> TRUE, target |-> <<>>]

\* DocumentEditor._relative_path: the path below the root; the RuntimeError of
\* _resolve is not a ValueError and passes through.
relative_path(r, p) ==
    LET resolved == resolve(r, p)
    IN  IF resolved.raised
        THEN [raised |-> TRUE, rel |-> <<>>]
        ELSE [raised |-> FALSE,
              rel |-> SubSeq(resolved.target, Len(r) + 1, Len(resolved.target))]

\* The files under a root that the paths of the model name.
Files(r) == { resolve(r, p).target : p \in {q \in Paths : ~resolve(r, q).raised} }

\* ------------------------------------------------------------------ operations

Sheets == {"S1", "S2"}

ActiveSheet == "S1"

\* The sheet arguments offered: none, an existing sheet, a missing sheet.
SheetArgs == {None, "S2", "S9"}

\* XlsxEditor.create_cell_operation without the tool's description default.
XlsxCellOp(p, sheet, new_value) ==
    [type |-> "xlsx_write_cell", path |-> p, description |-> "",
     old_text |-> None, new_text |-> None,
     sheet |-> sheet, cell |-> "A1",
     old_value |-> NoneV, new_value |-> new_value]

Operations == { XlsxCellOp(p, s, v) : p \in Paths, s \in SheetArgs, v \in NewValues }

\* A fingerprint that also hashes the sheet.
fingerprint_with_sheet(o) ==
    << o.type, o.path, OrEmpty(o.old_text), OrEmpty(o.new_text),
       OrEmpty(o.cell), StrOrEmpty(o.old_value), StrOrEmpty(o.new_value),
       OrEmpty(o.sheet) >>

\* ApprovalTracker.fingerprint: SHA-256 over the seven fields joined by NUL,
\* kept as the tuple of the hashed strings.
fingerprint(o) ==
    << o.type, o.path, OrEmpty(o.old_text), OrEmpty(o.new_text),
       OrEmpty(o.cell), StrOrEmpty(o.old_value), StrOrEmpty(o.new_value) >>

Fingerprints == { fingerprint(o) : o \in Operations }

NoOp == XlsxCellOp(Path(FALSE, <<>>), None, NoneV)

\* ------------------------------------------------------------------ results

\* OperationResult(success, output, path, error)
OperationResult(success, output, path, error) ==
    [raised |-> FALSE, success |-> success, output |-> output,
     path |-> path, error |-> error]

\* An exception that leaves execute.
Raised(text) ==
    [raised |-> TRUE, success |-> FALSE, output |-> text,
     path |-> <<>>, error |-> None]

NoResult == OperationResult(FALSE, "", <<>>, None)

\* ------------------------------------------------------------------ documents

\* A workbook file: whether it exists, and the value of cell A1 on each sheet.
EmptyWorkbook == [exists |-> TRUE, cells |-> [s \in Sheets |-> NoneV]]

Missing == [exists |-> FALSE, cells |-> [s \in Sheets |-> NoneV]]

\* What the document library does in one physical write.
LibOutcomes == {"ok", "load_raises", "save_raises"}

\* XlsxEditor.apply_operation for write-cell: the result (or the exception)
\* and the workbook on disk afterwards.
apply_operation(d, target, o, lib) ==
    IF o.type # "xlsx_write_cell"
    THEN [raised |-> FALSE, success |-> FALSE,
          output |-> "Unsupported operation type", disk |-> d]
    ELSE IF ~d[target].exists
    THEN [raised |-> FALSE, success |-> FALSE, output |-> "File not found", disk |-> d]
    ELSE IF lib = "load_raises"
    THEN [raised |-> TRUE, success |-> FALSE, output |-> "load_workbook failed", disk |-> d]
    ELSE LET sheet_name == IF OrEmpty(o.sheet) = "" THEN ActiveSheet ELSE o.sheet
         IN  IF sheet_name \notin Sheets
             THEN [raised |-> FALSE, success |-> FALSE,
                   output |-> "Sheet not found", disk |-> d]
             ELSE IF OrEmpty(o.cell) = ""
             THEN [raised |-> FALSE, success |-> FALSE,
                   output |-> "No cell reference provided", disk |-> d]
             ELSE IF lib = "save_raises"
             THEN [raised |-> TRUE, success |-> FALSE,
                   output |-> "save failed", disk |-> d]
             ELSE [raised |-> FALSE, success |-> TRUE, output |-> "Updated",
                   disk |-> [d EXCEPT ![target].cells[sheet_name] = o.new_value]]

\* ------------------------------------------------------------------ prompts

EOF == "<EOF>"

\* What the user may type at a line prompt (or end of input / interrupt).
Lines == {"y", " YES ", "n", "", EOF}

\* input(...).strip().lower()
StripLower(line) ==
    CASE line = " YES " -> "yes"
      [] OTHER -> line

\* A line prompt whose default answer (the empty line) is yes.
line_answer_default_yes(line) ==
    IF line = EOF THEN FALSE ELSE StripLower(line) \in {"y", "yes", ""}

\* The line prompts of _request_approval, _terminal_approval and
\* _terminal_diff_approval_rich: EOFError and KeyboardInterrupt give False.
line_answer(line) ==
    IF line = EOF THEN FALSE ELSE StripLower(line) \in {"y", "yes"}

\* ApprovalRequest: result (None, True or False) and the event's flag.
ApprovalRequest == [result |-> "None", event |-> FALSE]

\* request.result if request.result is not None else False
request_outcome(r) == r.result = "True"

\* ------------------------------------------------------------------ state

VARIABLES
    root,                 \* DocumentEditor._root
    auto_approve,         \* DocumentEditor._auto_approve
    callback_enabled,     \* approval_dialog._approval_callback_enabled
    terminal_console,     \* approval_dialog._terminal_console is not None
    app_reference,        \* approval_dialog._app_reference is not None
    ui_closed,            \* a UI adapter has shut down (on_unmount / finally ran)
    approved,             \* ApprovalTracker._approved
    rejected,             \* ApprovalTracker._rejected
    disk,                 \* the documents under the root
    requests,             \* the ApprovalRequest objects created so far
    pending_request,      \* approval_dialog._pending_request (0: None)
    app_pending_approval, \* the app's _pending_approval (0: None)
    dialogs,              \* the app's stack of open ApprovalDialog screens, top
                          \* first, each named by the request it was built from
    threads,              \* the worker threads
    pc,                   \* each worker's position
    op,                   \* each worker's operation
    fp,                   \* each worker's fingerprint
    ret,                  \* where a ledger call of the worker returns to
    req,                  \* each worker's ApprovalRequest (0: none)
    result,               \* what each worker's last execute returned
    call,                 \* what each worker's current or last execute did
    affirmed,             \* fingerprints whose prompt returned True since clear()
    cwd,                  \* the process's working directory
    handler,              \* where the UI thread stands inside _handle_approval_result
    args,                 \* the arguments of a function studied on its own
    returned              \* what that function returned

vars ==
    << root, auto_approve, callback_enabled, terminal_console, app_reference,
       ui_closed, approved, rejected, disk, requests, pending_request, app_pending_approval,
       dialogs, threads, pc, op, fp, ret, req, result, call, affirmed,
       cwd, handler, args, returned >>

config == << root, auto_approve, threads, cwd, handler, args, returned >>

\* The registration of the UI adapter.
ui == << callback_enabled, terminal_console, app_reference, ui_closed >>

ledger == << approved, rejected >>

channel == << requests, pending_request, app_pending_approval, dialogs >>

NoFp == fingerprint(NoOp)

\* The record of one execute call: the ledger as the call found it, and what
\* the call has done so far.
NewCall(f) ==
    [was_approved |-> f \in approved, was_rejected |-> f \in rejected,
     rendered |-> 0, prompts |-> 0, route |-> "none", line |-> "none",
     wait |-> "none", answer |-> "none",
     applied |-> FALSE, apply_approved |-> FALSE, apply_affirmed |-> FALSE]

NoCall ==
    [was_approved |-> FALSE, was_rejected |-> FALSE,
     rendered |-> 0, prompts |-> 0, route |-> "none", line |-> "none",
     wait |-> "none", answer |-> "none",
     applied |-> FALSE, apply_approved |-> FALSE, apply_affirmed |-> FALSE]

\* The front ends: no UI registered, the line-mode REPL, the full-screen app.
FrontEnds ==
    { [callback |-> FALSE, console |-> FALSE, app |-> FALSE],
      [callback |-> TRUE, console |-> TRUE, app |-> FALSE],
      [callback |-> TRUE, console |-> FALSE, app |-> TRUE] }

InitState(T) ==
    /\ root \in Roots
    /\ auto_approve \in BOOLEAN
    /\ \E fe \in FrontEnds :
          /\ callback_enabled = fe.callback
          /\ terminal_console = fe.console
          /\ app_reference = fe.app
    /\ ui_closed = FALSE
    /\ approved = {}
    /\ rejected = {}
    /\ disk \in [Files(root) -> {Missing, EmptyWorkbook}]
    /\ requests = <<>>
    /\ pending_request = 0
    /\ app_pending_approval = 0
    /\ dialogs = <<>>
    /\ threads = T
    /\ pc = [w \in T |-> "idle"]
    /\ op = [w \in T |-> NoOp]
    /\ fp = [w \in T |-> NoFp]
    /\ ret = [w \in T |-> "idle"]
    /\ req = [w \in T |-> 0]
    /\ result = [w \in T |-> NoResult]
    /\ call = [w \in T |-> NoCall]
    /\ affirmed = {}

\* The program at start-up: run from its workspace root, the UI thread outside
\* its handlers.
InitFor(T) ==
    /\ InitState(T)
    /\ cwd = root
    /\ handler = "idle"
    /\ args = <<>>
    /\ returned = <<>>

Init == InitFor({1})

\* ------------------------------------------------------------------ ledger

\* ApprovalTracker.remember_approved, first statement: self._approved.add(fp)
RememberApprovedAdd(w) ==
    /\ pc[w] = "ra_add"
    /\ approved' = approved \cup {fp[w]}
    /\ pc' = [pc EXCEPT ![w] = "ra_discard"]
    /\ UNCHANGED << config, ui, rejected, disk, channel, op, fp, ret, req, result, call, affirmed >>

\* remember_approved without the discard from the rejected set.
RememberApprovedDiscard_kept(w) ==
    /\ pc[w] = "ra_discard"
    /\ pc' = [pc EXCEPT ![w] = ret[w]]
    /\ ret' = [ret EXCEPT ![w] = "idle"]
    /\ UNCHANGED << config, ui, ledger, disk, channel, op, fp, req, result, call, affirmed >>

\* ApprovalTracker.remember_approved, second statement: self._rejected.discard(fp)
RememberApprovedDiscard(w) ==
    /\ pc[w] = "ra_discard"
    /\ rejected' = rejected \ {fp[w]}
    /\ pc' = [pc EXCEPT ![w] = ret[w]]
    /\ ret' = [ret EXCEPT ![w] = "idle"]
    /\ UNCHANGED << config, ui, approved, disk, channel, op, fp, req, result, call, affirmed >>

\* ApprovalTracker.remember_rejected, first statement: self._rejected.add(fp)
RememberRejectedAdd(w) ==
    /\ pc[w] = "rr_add"
    /\ rejected' = rejected \cup {fp[w]}
    /\ pc' = [pc EXCEPT ![w] = "rr_discard"]
    /\ UNCHANGED << config, ui, approved, disk, channel, op, fp, ret, req, result, call, affirmed >>

\* ApprovalTracker.remember_rejected, second statement: self._approved.discard(fp)
RememberRejectedDiscard(w) ==
    /\ pc[w] = "rr_discard"
    /\ approved' = approved \ {fp[w]}
    /\ pc' = [pc EXCEPT ![w] = ret[w]]
    /\ ret' = [ret EXCEPT ![w] = "idle"]
    /\ UNCHANGED << config, ui, rejected, disk, channel, op, fp, req, result, call, affirmed >>

\* ApprovalTracker.clear, first statement: self._approved.clear()
ClearApproved(w) ==
    /\ pc[w] = "clear_approved"
    /\ approved' = {}
    /\ affirmed' = {}
    /\ pc' = [pc EXCEPT ![w] = "clear_rejected"]
    /\ UNCHANGED << config, ui, rejected, disk, channel, op, fp, ret, req, result, call >>

\* ApprovalTracker.clear, second statement: self._rejected.clear()
ClearRejected(w) ==
    /\ pc[w] = "clear_rejected"
    /\ rejected' = {}
    /\ pc' = [pc EXCEPT ![w] = "idle"]
    /\ UNCHANGED << config, ui, approved, disk, channel, op, fp, ret, req, result, call, affirmed >>

\* reset_approval_state(): the shared tracker's clear(), called between tool
\* calls when a new session starts; the record of the last call is dropped.
reset_approval_state(w) ==
    /\ pc[w] = "idle"
    /\ pc' = [pc EXCEPT ![w] = "clear_approved"]
    /\ fp' = [fp EXCEPT ![w] = NoFp]
    /\ result' = [result EXCEPT ![w] = NoResult]
    /\ call' = [call EXCEPT ![w] = NoCall]
    /\ UNCHANGED << config, ui, ledger, disk, channel, op, ret, req, affirmed >>

\* ------------------------------------------------------------------ execute

\* DocumentEditor.execute, entry: _relative_path(operation.path) and the
\* fingerprint.  A path outside the root raises out of execute here.
Execute(w, o) ==
    /\ pc[w] = "idle"
    /\ req' = [req EXCEPT ![w] = 0]
    /\ fp' = [fp EXCEPT ![w] = fingerprint(o)]
    /\ call' = [call EXCEPT ![w] = NewCall(fingerprint(o))]
    /\ IF relative_path(root, o.path).raised
       THEN /\ result' = [result EXCEPT ![w] = Raised("RuntimeError: Operation outside workspace")]
            /\ op' = op
            /\ pc' = pc
       ELSE /\ result' = [result EXCEPT ![w] = NoResult]
            /\ op' = [op EXCEPT ![w] = o]
            /\ pc' = [pc EXCEPT ![w] = "is_rejected"]
    /\ UNCHANGED << config, ui, ledger, disk, channel, ret, affirmed >>

\* execute without the early return for a rejected fingerprint.
is_rejected_ignored(w) ==
    /\ pc[w] = "is_rejected"
    /\ pc' = [pc EXCEPT ![w] = "is_approved"]
    /\ UNCHANGED << config, ui, ledger, disk, channel, op, fp, ret, req, result, call, affirmed >>

\* execute: if self._approvals.is_rejected(fingerprint): return the failure
is_rejected(w) ==
    /\ pc[w] = "is_rejected"
    /\ IF fp[w] \in rejected
       THEN /\ result' = [result EXCEPT ![w] =
                   OperationResult(FALSE, "Operation was previously rejected.",
                                   relative_path(root, op[w].path).rel, None)]
            /\ op' = [op EXCEPT ![w] = NoOp]
            /\ pc' = [pc EXCEPT ![w] = "idle"]
       ELSE /\ result' = result
            /\ op' = op
            /\ pc' = [pc EXCEPT ![w] = "is_approved"]
    /\ UNCHANGED << config, ui, ledger, disk, channel, fp, ret, req, call, affirmed >>

\* execute without the auto-approve test: prompt unless already approved.
is_approved_ignores_auto(w) ==
    /\ pc[w] = "is_approved"
    /\ IF fp[w] \notin approved
       THEN /\ pc' = [pc EXCEPT ![w] = "request_approval"]
            /\ ret' = ret
       ELSE /\ pc' = [pc EXCEPT ![w] = "ra_add"]
            /\ ret' = [ret EXCEPT ![w] = "apply"]
    /\ UNCHANGED << config, ui, ledger, disk, channel, op, fp, req, result, call, affirmed >>

\* execute taking the else branch whatever the mode and the ledger say.
is_approved_without_prompt(w) ==
    /\ pc[w] = "is_approved"
    /\ pc' = [pc EXCEPT ![w] = "ra_add"]
    /\ ret' = [ret EXCEPT ![w] = "apply"]
    /\ UNCHANGED << config, ui, ledger, disk, channel, op, fp, req, result, call, affirmed >>

\* execute prompting whenever auto-approve is off, without the is_approved test.
is_approved_always_prompts(w) ==
    /\ pc[w] = "is_approved"
    /\ IF ~auto_approve
       THEN /\ pc' = [pc EXCEPT ![w] = "request_approval"]
            /\ ret' = ret
       ELSE /\ pc' = [pc EXCEPT ![w] = "ra_add"]
            /\ ret' = [ret EXCEPT ![w] = "apply"]
    /\ UNCHANGED << config, ui, ledger, disk, channel, op, fp, req, result, call, affirmed >>

\* execute: if not self._auto_approve and not is_approved(fingerprint): prompt;
\* else: remember_approved(fingerprint)
is_approved(w) ==
    /\ pc[w] = "is_approved"
    /\ IF ~auto_approve /\ fp[w] \notin approved
       THEN /\ pc' = [pc EXCEPT ![w] = "request_approval"]
            /\ ret' = ret
       ELSE /\ pc' = [pc EXCEPT ![w] = "ra_add"]
            /\ ret' = [ret EXCEPT ![w] = "apply"]
    /\ UNCHANGED << config, ui, ledger, disk, channel, op, fp, req, result, call, affirmed >>

\* execute recording a rejection without the return that follows it.
AfterPrompt_falls_through(w, ok) ==
    /\ pc' = [pc EXCEPT ![w] = IF ok THEN "ra_add" ELSE "rr_add"]
    /\ ret' = [ret EXCEPT ![w] = "apply"]
    /\ affirmed' = IF ok THEN affirmed \cup {fp[w]} ELSE affirmed

\* execute, once the prompt has returned: remember_approved and go on, or
\* remember_rejected and return.
AfterPrompt(w, ok) ==
    /\ pc' = [pc EXCEPT ![w] = IF ok THEN "ra_add" ELSE "rr_add"]
    /\ ret' = [ret EXCEPT ![w] = IF ok THEN "apply" ELSE "return_rejected"]
    /\ affirmed' = IF ok THEN affirmed \cup {fp[w]} ELSE affirmed

\* Whether request_approval hands the request to the full-screen app.
UsesDialog == callback_enabled /\ ~terminal_console /\ app_reference

\* Which line prompt a request takes when it is not handed to the app: the
\* editor's own stdin prompt (no callback), the line-mode console's prompt, or
\* _terminal_approval (callback enabled but no app registered).
line_route ==
    IF ~callback_enabled THEN "stdin"
    ELSE IF terminal_console THEN "console"
    ELSE "terminal"

\* _request_approval with a line prompt: the stdin prompt of the editor, the
\* line-mode console's prompt, or _terminal_approval when no app is registered.
request_approval_line(w, line) ==
    /\ pc[w] = "request_approval"
    /\ ~UsesDialog
    /\ call' = [call EXCEPT ![w].rendered = @ + 1, ![w].prompts = @ + 1,
                            ![w].route = line_route, ![w].line = line,
                            ![w].answer = IF line_answer(line) THEN "approve" ELSE "reject"]
    /\ AfterPrompt(w, line_answer(line))
    /\ UNCHANGED << config, ui, ledger, disk, channel, op, fp, req, result >>

\* request_approval with the app registered: create the ApprovalRequest and
\* store it in _pending_request under _request_lock.
request_approval_dialog(w) ==
    /\ pc[w] = "request_approval"
    /\ UsesDialog
    /\ Len(requests) < MaxRequests
    /\ requests' = Append(requests, ApprovalRequest)
    /\ req' = [req EXCEPT ![w] = Len(requests) + 1]
    /\ pending_request' = Len(requests) + 1
    /\ call' = [call EXCEPT ![w].rendered = @ + 1, ![w].route = "dialog"]
    /\ pc' = [pc EXCEPT ![w] = "dispatch"]
    /\ UNCHANGED << config, ui, ledger, disk, app_pending_approval, dialogs,
                    op, fp, ret, result, affirmed >>

\* app.call_from_thread(app.show_approval_dialog, request): the UI thread
\* stores the request in the app and pushes an ApprovalDialog.
show_approval_dialog(w) ==
    /\ pc[w] = "dispatch"
    /\ app_pending_approval' = req[w]
    /\ dialogs' = << req[w] >> \o dialogs
    /\ call' = [call EXCEPT ![w].prompts = @ + 1]
    /\ pc' = [pc EXCEPT ![w] = "wait"]
    /\ UNCHANGED << config, ui, ledger, disk, requests, pending_request,
                    op, fp, ret, req, result, affirmed >>

\* call_from_thread raises: clear _pending_request and fall back to the terminal.
dispatch_fails(w) ==
    /\ pc[w] = "dispatch"
    /\ pending_request' = 0
    /\ pc' = [pc EXCEPT ![w] = "terminal_fallback"]
    /\ UNCHANGED << config, ui, ledger, disk, requests, app_pending_approval, dialogs,
                    op, fp, ret, req, result, call, affirmed >>

\* _terminal_approval after a failed dispatch.
terminal_fallback(w, line) ==
    /\ pc[w] = "terminal_fallback"
    /\ call' = [call EXCEPT ![w].prompts = @ + 1,
                            ![w].route = "terminal", ![w].line = line,
                            ![w].answer = IF line_answer(line) THEN "approve" ELSE "reject"]
    /\ AfterPrompt(w, line_answer(line))
    /\ UNCHANGED << config, ui, ledger, disk, channel, op, fp, req, result >>

\* request.event.wait(timeout=300) returns because the event is set.
wait_signalled(w) ==
    /\ pc[w] = "wait"
    /\ requests[req[w]].event
    /\ call' = [call EXCEPT ![w].wait = "signalled"]
    /\ pc' = [pc EXCEPT ![w] = "clear_pending"]
    /\ UNCHANGED << config, ui, ledger, disk, channel, op, fp, ret, req, result, affirmed >>

\* request.event.wait() with no timeout: only the event ends the wait.
wait_without_timeout(w) ==
    /\ pc[w] = "wait"
    /\ FALSE
    /\ UNCHANGED vars

\* request.event.wait(timeout=300) returns because 300 seconds have passed.
wait_timeout(w) ==
    /\ pc[w] = "wait"
    /\ ~requests[req[w]].event
    /\ call' = [call EXCEPT ![w].wait = "timeout"]
    /\ pc' = [pc EXCEPT ![w] = "clear_pending"]
    /\ UNCHANGED << config, ui, ledger, disk, channel, op, fp, ret, req, result, affirmed >>

\* request_approval: with _request_lock: _pending_request = None
clear_pending(w) ==
    /\ pc[w] = "clear_pending"
    /\ pending_request' = 0
    /\ pc' = [pc EXCEPT ![w] = "read_result"]
    /\ UNCHANGED << config, ui, ledger, disk, requests, app_pending_approval, dialogs,
                    op, fp, ret, req, result, call, affirmed >>

\* request_approval: return request.result if request.result is not None else False
read_result(w) ==
    /\ pc[w] = "read_result"
    /\ call' = [call EXCEPT ![w].answer =
                   CASE requests[req[w]].result = "True" -> "approve"
                     [] requests[req[w]].result = "False" -> "reject"
                     [] OTHER -> "timeout"]
    /\ AfterPrompt(w, request_outcome(requests[req[w]]))
    /\ UNCHANGED << config, ui, ledger, disk, channel, op, fp, req, result >>

\* execute: return OperationResult(success=False, output="Operation rejected by user.")
return_rejected(w) ==
    /\ pc[w] = "return_rejected"
    /\ result' = [result EXCEPT ![w] =
           OperationResult(FALSE, "Operation rejected by user.",
                           relative_path(root, op[w].path).rel, None)]
    /\ op' = [op EXCEPT ![w] = NoOp]
    /\ pc' = [pc EXCEPT ![w] = "idle"]
    /\ UNCHANGED << config, ui, ledger, disk, channel, fp, ret, req, call, affirmed >>

\* execute without the try/except around apply_operation.
apply_uncaught(w, lib) ==
    /\ pc[w] = "apply"
    /\ LET r == apply_operation(disk, resolve(root, op[w].path).target, op[w], lib)
           rel == relative_path(root, op[w].path).rel
       IN  /\ disk' = r.disk
           /\ result' = [result EXCEPT ![w] =
                  IF r.raised
                  THEN Raised(r.output)
                  ELSE OperationResult(r.success, r.output, rel, None)]
    /\ call' = [call EXCEPT ![w].applied = TRUE,
                            ![w].apply_approved = fp[w] \in approved,
                            ![w].apply_affirmed = fp[w] \in affirmed]
    /\ op' = [op EXCEPT ![w] = NoOp]
    /\ pc' = [pc EXCEPT ![w] = "idle"]
    /\ UNCHANGED << config, ui, ledger, channel, fp, ret, req, affirmed >>

\* execute taking the approval back when the write fails.
apply_revokes_on_failure(w, lib) ==
    /\ pc[w] = "apply"
    /\ LET r == apply_operation(disk, resolve(root, op[w].path).target, op[w], lib)
           rel == relative_path(root, op[w].path).rel
       IN  /\ disk' = r.disk
           /\ result' = [result EXCEPT ![w] =
                  IF r.raised
                  THEN OperationResult(FALSE, "Failed to apply operation: " \o r.output,
                                       rel, r.output)
                  ELSE OperationResult(r.success, r.output, rel, None)]
           /\ approved' = IF r.raised \/ ~r.success THEN approved \ {fp[w]} ELSE approved
    /\ call' = [call EXCEPT ![w].applied = TRUE,
                            ![w].apply_approved = fp[w] \in approved,
                            ![w].apply_affirmed = fp[w] \in affirmed]
    /\ op' = [op EXCEPT ![w] = NoOp]
    /\ pc' = [pc EXCEPT ![w] = "idle"]
    /\ UNCHANGED << config, ui, rejected, channel, fp, ret, req, affirmed >>

\* execute: try: result = self.apply_operation(operation) ... except Exception
apply(w, lib) ==
    /\ pc[w] = "apply"
    /\ LET r == apply_operation(disk, resolve(root, op[w].path).target, op[w], lib)
           rel == relative_path(root, op[w].path).rel
       IN  /\ disk' = r.disk
           /\ result' = [result EXCEPT ![w] =
                  IF r.raised
                  THEN OperationResult(FALSE, "Failed to apply operation: " \o r.output,
                                       rel, r.output)
                  ELSE OperationResult(r.success, r.output, rel, None)]
    /\ call' = [call EXCEPT ![w].applied = TRUE,
                            ![w].apply_approved = fp[w] \in approved,
                            ![w].apply_affirmed = fp[w] \in affirmed]
    /\ op' = [op EXCEPT ![w] = NoOp]
    /\ pc' = [pc EXCEPT ![w] = "idle"]
    /\ UNCHANGED << config, ui, ledger, channel, fp, ret, req, affirmed >>

\* ------------------------------------------------------------------ the app

\* What dismissing an ApprovalDialog passes to the callback.
DialogResults == {"True", "False", "None"}

\* _handle_approval_result without the reset of _pending_approval.
HandleResult_keeps_pending(reqs, pending, answer) ==
    IF pending # 0
    THEN [requests |-> [reqs EXCEPT ![pending] =
                           [result |-> IF answer = "True" THEN "True" ELSE "False",
                            event |-> TRUE]],
          pending |-> pending,
          signalled |-> TRUE]
    ELSE [requests |-> reqs, pending |-> pending, signalled |-> FALSE]

\* The body of _handle_approval_result(result) on the requests and the app's
\* _pending_approval: the requests and the slot afterwards, and whether
\* event.set() was called.
HandleResult(reqs, pending, answer) ==
    IF pending # 0
    THEN [requests |-> [reqs EXCEPT ![pending] =
                           [result |-> IF answer = "True" THEN "True" ELSE "False",
                            event |-> TRUE]],
          pending |-> 0,
          signalled |-> TRUE]
    ELSE [requests |-> reqs, pending |-> pending, signalled |-> FALSE]

\* The user answers the ApprovalDialog on top of the screen stack; the
\* screen's callback is _handle_approval_result(result).
handle_approval_result(answer) ==
    /\ dialogs # <<>>
    /\ dialogs' = Tail(dialogs)
    /\ LET h == HandleResult(requests, app_pending_approval, answer)
       IN  /\ requests' = h.requests
           /\ app_pending_approval' = h.pending
    /\ UNCHANGED << config, ui, ledger, disk, pending_request,
                    pc, op, fp, ret, req, result, call, affirmed >>

\* on_unmount that clears the app reference and leaves the callback enabled.
on_unmount_keeps_callback ==
    /\ app_reference
    /\ app_reference' = FALSE
    /\ ui_closed' = TRUE
    /\ UNCHANGED << config, callback_enabled, terminal_console, ledger, disk, channel,
                    pc, op, fp, ret, req, result, call, affirmed >>

\* DocumentAnalyzerApp.on_unmount: disable_ui_approval(); clear_app_reference()
on_unmount ==
    /\ app_reference
    /\ callback_enabled' = FALSE
    /\ app_reference' = FALSE
    /\ ui_closed' = TRUE
    /\ UNCHANGED << config, terminal_console, ledger, disk, channel,
                    pc, op, fp, ret, req, result, call, affirmed >>

\* run_document_analyzer_repl_rich, finally: disable_ui_approval();
\* clear_terminal_approval_mode()
repl_rich_finally ==
    /\ terminal_console
    /\ callback_enabled' = FALSE
    /\ terminal_console' = FALSE
    /\ ui_closed' = TRUE
    /\ UNCHANGED << config, app_reference, ledger, disk, channel,
                    pc, op, fp, ret, req, result, call, affirmed >>

\* ------------------------------------------------------------------ specifications

\* Tool calls run one at a time on one worker; the UI thread answers dialogs.
Next ==
    \/ \E w \in threads, o \in Operations : Execute(w, o)
    \/ \E w \in threads : is_rejected(w)
    \/ \E w \in threads : is_approved(w)
    \/ \E w \in threads, line \in Lines : request_approval_line(w, line)
    \/ \E w \in threads : request_approval_dialog(w)
    \/ \E w \in threads : show_approval_dialog(w)
    \/ \E w \in threads : dispatch_fails(w)
    \/ \E w \in threads, line \in Lines : terminal_fallback(w, line)
    \/ \E w \in threads : wait_signalled(w)
    \/ \E w \in threads : wait_timeout(w)
    \/ \E w \in threads : clear_pending(w)
    \/ \E w \in threads : read_result(w)
    \/ \E w \in threads : RememberApprovedAdd(w)
    \/ \E w \in threads : RememberApprovedDiscard(w)
    \/ \E w \in threads : RememberRejectedAdd(w)
    \/ \E w \in threads : RememberRejectedDiscard(w)
    \/ \E w \in threads : return_rejected(w)
    \/ \E w \in threads, lib \in LibOutcomes : apply(w, lib)
    \/ \E w \in threads : reset_approval_state(w)
    \/ \E w \in threads : ClearApproved(w)
    \/ \E w \in threads : ClearRejected(w)
    \/ \E answer \in DialogResults : handle_approval_result(answer)

Spec == Init /\ [][Next]_vars

\* The worker thread keeps running: a wait ends (by the event or by its
\* timeout) and the statements after it are executed.
Fairness ==
    \A w \in {1} :
        /\ WF_vars(wait_signalled(w) \/ wait_timeout(w))
        /\ WF_vars(clear_pending(w))
        /\ WF_vars(read_result(w))

SpecLive == Init /\ [][Next]_vars /\ Fairness

\* ------------------------------------------------------------------ UI shutdown

\* One worker under one root, prompting; the UI adapter may shut down at any
\* moment.
InitUI ==
    /\ Init
    /\ root = <<"w">>
    /\ ~auto_approve

NextUI ==
    \/ \E w \in threads, o \in Operations : Execute(w, o)
    \/ \E w \in threads : is_rejected(w)
    \/ \E w \in threads : is_approved(w)
    \/ \E w \in threads, line \in Lines : request_approval_line(w, line)
    \/ \E w \in threads : request_approval_dialog(w)
    \/ \E w \in threads : show_approval_dialog(w)
    \/ \E w \in threads : dispatch_fails(w)
    \/ \E w \in threads, line \in Lines : terminal_fallback(w, line)
    \/ \E w \in threads : wait_signalled(w)
    \/ \E w \in threads : wait_timeout(w)
    \/ \E w \in threads : clear_pending(w)
    \/ \E w \in threads : read_result(w)
    \/ \E w \in threads : RememberApprovedAdd(w)
    \/ \E w \in threads : RememberApprovedDiscard(w)
    \/ \E w \in threads : RememberRejectedAdd(w)
    \/ \E w \in threads : RememberRejectedDiscard(w)
    \/ \E w \in threads : return_rejected(w)
    \/ \E w \in threads, lib \in LibOutcomes : apply(w, lib)
    \/ \E answer \in DialogResults : handle_approval_result(answer)
    \/ on_unmount
    \/ repl_rich_finally

SpecUI == InitUI /\ [][NextUI]_vars

\* ------------------------------------------------------------------ the ledger alone

\* A caller of ApprovalTracker.remember_approved(f); call.answer keeps the
\* decision the caller records.
CallRememberApproved(w, f) ==
    /\ pc[w] = "idle"
    /\ fp' = [fp EXCEPT ![w] = f]
    /\ call' = [call EXCEPT ![w] = [NoCall EXCEPT !.answer = "approve"]]
    /\ pc' = [pc EXCEPT ![w] = "ra_add"]
    /\ UNCHANGED << config, ui, ledger, disk, channel, op, ret, req, result, affirmed >>

\* A caller of ApprovalTracker.remember_rejected(f)
CallRememberRejected(w, f) ==
    /\ pc[w] = "idle"
    /\ fp' = [fp EXCEPT ![w] = f]
    /\ call' = [call EXCEPT ![w] = [NoCall EXCEPT !.answer = "reject"]]
    /\ pc' = [pc EXCEPT ![w] = "rr_add"]
    /\ UNCHANGED << config, ui, ledger, disk, channel, op, ret, req, result, affirmed >>

\* The ApprovalTracker driven directly, one call at a time.
NextLedger ==
    \/ \E w \in threads, f \in Fingerprints : CallRememberApproved(w, f)
    \/ \E w \in threads, f \in Fingerprints : CallRememberRejected(w, f)
    \/ \E w \in threads : reset_approval_state(w)
    \/ \E w \in threads : RememberApprovedAdd(w)
    \/ \E w \in threads : RememberApprovedDiscard(w)
    \/ \E w \in threads : RememberRejectedAdd(w)
    \/ \E w \in threads : RememberRejectedDiscard(w)
    \/ \E w \in threads : ClearApproved(w)
    \/ \E w \in threads : ClearRejected(w)

SpecLedger == Init /\ [][NextLedger]_vars

\* Two workers under one root, prompting, with no UI or with the full-screen
\* app; the documents exist.
InitConc ==
    /\ InitFor({1, 2})
    /\ root = <<"w">>
    /\ ~auto_approve
    /\ ~terminal_console
    /\ \A f \in Files(root) : disk[f].exists

\* The operations two concurrent tool calls are asked to run: one cell of one
\* document on every sheet argument, and a path outside the root.
ConcOperations ==
    { o \in Operations : o.path \in {Path(FALSE, <<"a.xlsx">>), Path(TRUE, <<"etc", "passwd">>)} }

\* What the user types at the line prompts of two concurrent tool calls.
ConcLines == {"y", "n"}

\* Two workers drive the ApprovalTracker at the same time.

NextLedgerConc ==
    \/ \E w \in threads, f \in Fingerprints : CallRememberApproved(w, f)
    \/ \E w \in threads, f \in Fingerprints : CallRememberRejected(w, f)
    \/ \E w \in threads : RememberApprovedAdd(w)
    \/ \E w \in threads : RememberApprovedDiscard(w)
    \/ \E w \in threads : RememberRejectedAdd(w)
    \/ \E w \in threads : RememberRejectedDiscard(w)

SpecLedgerConc == InitConc /\ [][NextLedgerConc]_vars

\* Two workers run tool calls at the same time.
NextConc ==
    \/ \E w \in threads, o \in ConcOperations : Execute(w, o)
    \/ \E w \in threads : is_rejected(w)
    \/ \E w \in threads : is_approved(w)
    \/ \E w \in threads, line \in ConcLines : request_approval_line(w, line)
    \/ \E w \in threads : request_approval_dialog(w)
    \/ \E w \in threads : show_approval_dialog(w)
    \/ \E w \in threads : dispatch_fails(w)
    \/ \E w \in threads, line \in ConcLines : terminal_fallback(w, line)
    \/ \E w \in threads : wait_signalled(w)
    \/ \E w \in threads : wait_timeout(w)
    \/ \E w \in threads : clear_pending(w)
    \/ \E w \in threads : read_result(w)
    \/ \E w \in threads : RememberApprovedAdd(w)
    \/ \E w \in threads : RememberApprovedDiscard(w)
    \/ \E w \in threads : RememberRejectedAdd(w)
    \/ \E w \in threads : RememberRejectedDiscard(w)
    \/ \E w \in threads : return_rejected(w)
    \/ \E w \in threads, lib \in LibOutcomes : apply(w, lib)
    \/ \E answer \in DialogResults : handle_approval_result(answer)

SpecConc == InitConc /\ [][NextConc]_vars

\* ------------------------------------------------------------------ claims

\* The positions of a worker inside execute, after the containment check.
ExecPcs ==
    { "is_rejected", "is_approved", "request_approval", "dispatch",
      "terminal_fallback", "wait", "clear_pending", "read_result",
      "ra_add", "ra_discard", "rr_add", "rr_discard", "return_rejected", "apply" }

\* The positions of a worker whose call is asking the user.
PromptPcs ==
    { "request_approval", "dispatch", "terminal_fallback", "wait",
      "clear_pending", "read_result" }

\* A path whose resolved absolute path is not under the root.
Escapes(r, p) ==
    ~IsUnder(r, Normalize(<<>>, IF p.abs THEN p.parts ELSE r \o p.parts))

\* C1: with auto-approve disabled and execute calls run one at a time,
\* apply_operation is invoked only while the operation's fingerprint is in
\* approved, and a fingerprint is in approved only if a prompt for it returned
\* true since the last clear(); no write happens for a fingerprint that was
\* never affirmatively approved.
C1_NoUnapprovedWrite ==
    ~auto_approve =>
        /\ approved \subseteq affirmed
        /\ \A w \in threads :
              /\ pc[w] = "apply" => fp[w] \in approved
              /\ call[w].applied => call[w].apply_approved /\ call[w].apply_affirmed

C1_Witness ==
    \E w \in threads :
        /\ ~auto_approve
        /\ pc[w] = "idle"
        /\ call[w].applied
        /\ call[w].answer = "approve"
        /\ result[w].success
        /\ \E f \in DOMAIN disk : disk[f].cells[ActiveSheet] = IntV(1)

\* C2: when the prompt ends by the 300-second timeout, execute returns a
\* not-approved failure and the fingerprint is afterwards in neither approved
\* nor rejected.
C2_TimeoutNotRecorded ==
    \A w \in threads :
        (pc[w] = "idle" /\ call[w].answer = "timeout") =>
            /\ ~result[w].raised
            /\ ~result[w].success
            /\ fp[w] \notin approved
            /\ fp[w] \notin rejected

C2_Witness ==
    \E w \in threads :
        /\ pc[w] = "idle"
        /\ call[w].wait = "timeout"
        /\ call[w].answer = "timeout"
        /\ result[w].output = "Operation rejected by user."
        /\ fp[w] \in rejected

\* C3: for a target path that resolves outside the root, execute writes no
\* file, renders no diff, requests no approval and leaves the ledger
\* unchanged, in prompting and in auto-approve mode.
C3_OutsideState ==
    \A w \in threads :
        /\ pc[w] \in ExecPcs => ~Escapes(root, op[w].path)
        /\ (fp[w] # NoFp /\ Escapes(root, fp[w][2])) =>
              /\ pc[w] = "idle"
              /\ call[w].rendered = 0
              /\ call[w].prompts = 0
              /\ ~call[w].applied

\* A step that is an execute call of worker w on a path outside the root.
ExecutesOutside(w) ==
    /\ pc[w] = "idle"
    /\ pc'[w] = "idle"
    /\ << fp[w], call[w], result[w] >> # << fp'[w], call'[w], result'[w] >>
    /\ fp'[w] # NoFp
    /\ Escapes(root, fp'[w][2])

C3_OutsideStep ==
    \A w \in threads : ExecutesOutside(w) => UNCHANGED << ledger, disk, channel >>

C4_ExecuteNeverRaises ==
    \A w \in threads : ~result[w].raised

C4_Witness ==
    \E w \in threads :
        /\ pc[w] = "idle"
        /\ result[w].raised
        /\ Escapes(root, fp[w][2])

\* C5: an operation whose fingerprint is already in approved is not prompted
\* for again (no diff, no approval request) and goes straight to the write.
C5_NoDoublePrompt ==
    \A w \in threads :
        call[w].was_approved =>
            /\ call[w].prompts = 0
            /\ call[w].rendered = 0
            /\ pc[w] \notin PromptPcs
            /\ pc[w] \notin {"rr_add", "rr_discard", "return_rejected"}
            /\ pc[w] = "idle" => call[w].applied

C5_Witness ==
    \E w \in threads :
        /\ ~auto_approve
        /\ call[w].was_approved
        /\ pc[w] = "idle"
        /\ call[w].applied
        /\ call[w].prompts = 0
        /\ result[w].success

C7_RejectedState ==
    \A w \in threads :
        call[w].answer = "reject" =>
            /\ pc[w] \in {"rr_add", "rr_discard", "return_rejected", "idle"}
            /\ ~call[w].applied
            /\ pc[w] = "idle" =>
                  /\ ~result[w].raised
                  /\ ~result[w].success
                  /\ result[w].output = "Operation rejected by user."
                  /\ fp[w] \in rejected
                  /\ fp[w] \notin approved

C7_RejectedStep ==
    \A w \in threads :
        (call[w].answer = "reject" /\ pc[w] # "idle") => disk' = disk

C7_UserRejection == []C7_RejectedState /\ [][C7_RejectedStep]_vars

C7_Witness ==
    \E w \in threads :
        /\ call[w].answer = "reject"
        /\ pc[w] = "idle"
        /\ result[w].output = "Operation rejected by user."
        /\ fp[w] \in rejected
        /\ \E f \in DOMAIN disk : disk[f].exists /\ disk[f].cells[ActiveSheet] = NoneV

\* C8: with the ledger's calls run one at a time, no fingerprint is in both
\* sets between calls; right after remember_approved(fp) fp is approved and
\* not rejected, right after remember_rejected(fp) the reverse, and after
\* clear() both sets are empty.
C8_Disjoint ==
    (\A w \in threads : pc[w] = "idle") => approved \cap rejected = {}

C8_AfterCall ==
    \A w \in threads :
        /\ (pc[w] = "ra_discard" /\ pc'[w] = "idle") =>
              (fp[w] \in approved' /\ fp[w] \notin rejected')
        /\ (pc[w] = "rr_discard" /\ pc'[w] = "idle") =>
              (fp[w] \in rejected' /\ fp[w] \notin approved')
        /\ (pc[w] = "clear_rejected" /\ pc'[w] = "idle") =>
              (approved' = {} /\ rejected' = {})

C8_LedgerExclusive == []C8_Disjoint /\ [][C8_AfterCall]_vars

C8_Witness ==
    \E w \in threads :
        /\ pc[w] = "ra_discard"
        /\ fp[w] \in approved
        /\ fp[w] \in rejected
        /\ approved # {fp[w]}

\* C9: when two workers record opposite decisions for one fingerprint at the
\* same time, the fingerprint is never in both sets, and when both calls have
\* finished it is in exactly one set.
C9_AtomicLedger ==
    \A w1, w2 \in threads :
        (/\ w1 # w2
         /\ fp[w1] = fp[w2]
         /\ call[w1].answer = "approve"
         /\ call[w2].answer = "reject") =>
            /\ (pc[w1] # "idle" /\ pc[w2] # "idle") =>
                  ~(fp[w1] \in approved /\ fp[w1] \in rejected)
            /\ (pc[w1] = "idle" /\ pc[w2] = "idle") =>
                  ((fp[w1] \in approved) # (fp[w1] \in rejected))

\* C9, the end of the two calls alone: the fingerprint is in exactly one set.
C9_ExactlyOneAtEnd ==
    \A w1, w2 \in threads :
        (/\ w1 # w2
         /\ fp[w1] = fp[w2]
         /\ call[w1].answer = "approve"
         /\ call[w2].answer = "reject"
         /\ pc[w1] = "idle"
         /\ pc[w2] = "idle") =>
            ((fp[w1] \in approved) # (fp[w1] \in rejected))

C9_Witness ==
    \E w1, w2 \in threads :
        /\ w1 # w2
        /\ fp[w1] = fp[w2]
        /\ call[w1].answer = "approve"
        /\ call[w2].answer = "reject"
        /\ pc[w1] = "ra_discard"
        /\ pc[w2] = "rr_discard"
        /\ fp[w1] \in approved
        /\ fp[w1] \in rejected

\* C10: when two workers execute operations with one undecided fingerprint at
\* the same time, the user is prompted at most once for it and both
\* executions follow the one recorded decision.
C10_PromptOnce ==
    \A w1, w2 \in threads :
        (w1 # w2 /\ fp[w1] = fp[w2] /\ fp[w1] # NoFp) =>
            /\ call[w1].prompts + call[w2].prompts <= 1
            /\ ~(call[w1].applied /\ call[w2].answer \in {"reject", "timeout"})

C10_Witness ==
    \E w1, w2 \in threads :
        /\ w1 # w2
        /\ fp[w1] = fp[w2]
        /\ fp[w1] # NoFp
        /\ call[w1].prompts = 1
        /\ call[w2].prompts = 1
        /\ call[w1].applied
        /\ call[w2].answer = "reject"

\* C11: delivering a decision a second time for one request (the result
\* handler invoked twice with no dispatch in between) has the effect of
\* delivering it once: the request keeps the first result, the event is set
\* once, and the second call changes nothing.
C11_TwiceIsOnce ==
    \A a1, a2 \in DialogResults :
        LET once == HandleResult(requests, app_pending_approval, a1)
            twice == HandleResult(once.requests, once.pending, a2)
        IN  /\ twice.requests = once.requests
            /\ twice.pending = once.pending
            /\ ~twice.signalled

\* A dialog answered while the app holds no request changes no request.
C11_SecondIsNoOp ==
    (dialogs # <<>> /\ dialogs' = Tail(dialogs) /\ app_pending_approval = 0) =>
        UNCHANGED << requests, pending_request, app_pending_approval, ledger, disk, pc, result >>

C11_IdempotentResolve == []C11_TwiceIsOnce /\ [][C11_SecondIsNoOp]_vars

C11_Witness ==
    /\ dialogs # <<>>
    /\ app_pending_approval = 0
    /\ \E i \in DOMAIN requests : requests[i].event /\ requests[i].result = "True"

\* A request whose life has ended: it was answered, or its waiter's wait ran
\* out.
Finished(i) ==
    \/ requests[i].event
    \/ \E w \in threads : req[w] = i /\ call[w].wait = "timeout"

\* C12: once a request is Approved, Rejected or TimedOut it never changes; an
\* answer given in the still-open dialog of a timed-out request changes neither
\* the request's result nor the outcome already returned.
C12_FinalStep ==
    /\ \A i \in DOMAIN requests : Finished(i) => requests'[i] = requests[i]
    /\ \A w \in threads :
          (pc[w] = "idle" /\ pc'[w] = "idle" /\ fp'[w] = fp[w]) => result'[w] = result[w]

C12_TerminalIsFinal == [][C12_FinalStep]_vars

C12_Witness ==
    \E w \in threads :
        /\ pc[w] = "idle"
        /\ req[w] # 0
        /\ call[w].wait = "timeout"
        /\ result[w].output = "Operation rejected by user."
        /\ requests[req[w]].result = "True"

\* C13: when the 300-second wait runs out without the event set, the request
\* for approval returns false and the pending-request slot is empty
\* afterwards, however a UI answer interleaves with the expiry.
C13_TimeoutReturnsFalse ==
    \A w \in threads :
        (call[w].wait = "timeout" /\ call[w].answer # "none") =>
            /\ call[w].answer # "approve"
            /\ pending_request = 0

C13_Witness ==
    \E w \in threads :
        /\ pc[w] = "idle"
        /\ call[w].wait = "timeout"
        /\ call[w].answer = "approve"
        /\ call[w].applied
        /\ result[w].success

\* C14: at most one request is outstanding (dispatched and not finished) at
\* any moment, and while a call waits the pending-request slot holds that
\* call's request, also with two concurrent tool calls.
C14_SingleFlight ==
    /\ Cardinality({ w \in threads : pc[w] = "wait" }) <= 1
    /\ \A w \in threads : pc[w] = "wait" => pending_request = req[w]

C14_Witness ==
    \E w1, w2 \in threads :
        /\ w1 # w2
        /\ pc[w1] = "wait"
        /\ pc[w2] = "wait"
        /\ req[w1] # req[w2]
        /\ pending_request = req[w2]
        /\ dialogs = << req[w2], req[w1] >>

\* C15: once the user answers the dialog of a dispatched request whose caller
\* still waits, that request is resolved with a definite boolean; none is left
\* unresolved, also when a second request was dispatched while the first dialog
\* was open.
C15_AnswerResolves ==
    \A w \in threads :
        (/\ dialogs # <<>>
         /\ dialogs' = Tail(dialogs)
         /\ req[w] = Head(dialogs)
         /\ pc[w] = "wait"
         /\ ~requests[req[w]].event) =>
            /\ requests'[req[w]].event
            /\ requests'[req[w]].result \in {"True", "False"}

C15_ResolvedOnce == [][C15_AnswerResolves]_vars

C15_Witness ==
    \E w \in threads :
        /\ pc[w] = "wait"
        /\ call[w].prompts = 1
        /\ ~requests[req[w]].event
        /\ dialogs = <<>>
        /\ app_pending_approval = 0

\* C16: every request for approval that was dispatched to the dialog UI
\* returns a boolean in the end: after an approval, a rejection, or the
\* timeout when the UI never resolves the request.
C16_SubmitReturns ==
    \A w \in {1} : (pc[w] = "wait") ~> (pc[w] \in {"ra_add", "rr_add"})

C16_Witness ==
    \E w \in threads :
        /\ call[w].route = "dialog"
        /\ call[w].wait = "timeout"
        /\ call[w].answer = "timeout"
        /\ pc[w] = "rr_add"
        /\ ~requests[req[w]].event

\* C17: with no UI registered an approval request reads one line from
\* standard input and returns true exactly when the trimmed, lower-cased line
\* is "y" or "yes" (false for any other line, end of input or an interrupt);
\* it creates no request and does not touch the pending-request slot.
C17_StdinState ==
    \A w \in threads :
        call[w].route = "stdin" =>
            /\ call[w].prompts = 1
            /\ req[w] = 0
            /\ call[w].answer = IF call[w].line \in {"y", " YES "} THEN "approve" ELSE "reject"

C17_StdinStep ==
    \A w \in threads :
        (pc[w] = "request_approval" /\ pc'[w] # "request_approval" /\ ~callback_enabled) =>
            /\ call'[w].route = "stdin"
            /\ call'[w].line \in Lines
            /\ pc'[w] = IF call'[w].line \in {"y", " YES "} THEN "ra_add" ELSE "rr_add"
            /\ UNCHANGED channel

C17_StdinFallback == []C17_StdinState /\ [][C17_StdinStep]_vars

C17_Witness ==
    \E w \in threads :
        /\ ~callback_enabled
        /\ call[w].route = "stdin"
        /\ call[w].line = " YES "
        /\ pc[w] = "idle"
        /\ call[w].applied
        /\ requests = <<>>

\* C18: after a UI adapter has shut down no UI is registered, and every later
\* approval request takes the stdin prompt and is not dispatched to the closed
\* UI; before the shutdown requests go to the registered adapter.
C18_ClosedState ==
    ui_closed => (~callback_enabled /\ ~terminal_console /\ ~app_reference)

C18_RequestStep ==
    \A w \in threads :
        (pc[w] = "request_approval" /\ pc'[w] # "request_approval") =>
            IF ui_closed
            THEN /\ call'[w].route = "stdin"
                 /\ pc'[w] # "dispatch"
                 /\ UNCHANGED channel
            ELSE /\ app_reference => (call'[w].route = "dialog" /\ pc'[w] = "dispatch")
                 /\ terminal_console => call'[w].route = "console"

C18_Deregistered == []C18_ClosedState /\ [][C18_RequestStep]_vars

C18_Witness ==
    \E w \in threads :
        /\ ui_closed
        /\ requests # <<>>
        /\ call[w].route = "stdin"
        /\ call[w].prompts = 1
        /\ pc[w] = "idle"

\* C19: in auto-approve mode execute never requests approval; every operation
\* whose fingerprint is not rejected is recorded as approved and applied, a
\* path outside the root is still refused, and an exception of the write is
\* still returned as a failure.
C19_AutoApprove ==
    auto_approve =>
        \A w \in threads :
            /\ call[w].prompts = 0
            /\ call[w].rendered = 0
            /\ pc[w] \notin PromptPcs \cup {"rr_add", "rr_discard", "return_rejected"}
            /\ pc[w] = "apply" => fp[w] \in approved
            /\ (pc[w] = "idle" /\ fp[w] # NoFp) =>
                  IF Escapes(root, fp[w][2])
                  THEN ~call[w].applied
                  ELSE /\ ~call[w].was_rejected
                       /\ call[w].applied
                       /\ call[w].apply_approved
                       /\ ~result[w].raised

C19_Witness ==
    \E w \in threads :
        /\ auto_approve
        /\ pc[w] = "idle"
        /\ call[w].applied
        /\ fp[w] \in approved
        /\ result[w].error = "save failed"

\* C20: an exception raised by the physical write is caught inside execute
\* and returned as a failure whose output and error carry the exception text,
\* and apply_operation is invoked at most once per execute call.
C20_ApplyCaught ==
    \A w \in threads :
        /\ pc[w] = "apply" => ~call[w].applied
        /\ call[w].applied =>
              /\ pc[w] = "idle"
              /\ ~result[w].raised
              /\ result[w].error # None =>
                    /\ ~result[w].success
                    /\ result[w].error \in {"load_workbook failed", "save failed"}
                    /\ result[w].output = "Failed to apply operation: " \o result[w].error

C20_Witness ==
    \E w \in threads :
        /\ pc[w] = "idle"
        /\ call[w].applied
        /\ ~result[w].success
        /\ result[w].output = "Failed to apply operation: load_workbook failed"
        /\ result[w].error = "load_workbook failed"

\* ------------------------------------------------------------------ claims, continued

\* C21: when the UI is torn down while a Decision Request is outstanding, the
\* pending request is cleared and its waiting worker is released at that
\* point: after the teardown step no request is pending and every worker that
\* was waiting finds its event set.
C21_TeardownStep ==
    \A w \in threads :
        (~ui_closed /\ ui_closed' /\ pc[w] = "wait" /\ pending_request = req[w]) =>
            /\ pending_request' = 0
            /\ requests'[req[w]].event

C21_TeardownReleases == [][C21_TeardownStep]_vars

C21_Witness ==
    /\ ui_closed
    /\ pending_request # 0
    /\ \E w \in threads :
          /\ pc[w] = "wait"
          /\ req[w] = pending_request
          /\ ~requests[req[w]].event

\* C26: with execute calls run one at a time a recorded decision never flips:
\* every step that is not a step of clear() keeps each fingerprint of rejected
\* in rejected and each fingerprint of approved in approved.
C26_ClearStep ==
    \E w \in threads : pc[w] \in {"clear_approved", "clear_rejected"}

C26_StableStep ==
    ~C26_ClearStep =>
        /\ approved \subseteq approved'
        /\ rejected \subseteq rejected'
        /\ \A f \in approved : f \notin rejected'
        /\ \A f \in rejected : f \notin approved'

C26_DecisionsStable == [][C26_StableStep]_vars

C26_Witness ==
    \E w \in threads :
        /\ pc[w] = "idle"
        /\ call[w].was_rejected
        /\ result[w].output = "Operation was previously rejected."
        /\ fp[w] \in rejected
        /\ \E f \in approved : f # fp[w] /\ f \in affirmed

\* C27: approval is recorded before the write is attempted: the fingerprint is
\* in approved when apply_operation is called and stays there when the write
\* fails, and a call that finds its fingerprint approved attempts the write
\* without a prompt.
C27_ApprovedBeforeWrite ==
    \A w \in threads :
        /\ pc[w] = "apply" => fp[w] \in approved
        /\ (pc[w] = "idle" /\ call[w].applied /\ ~result[w].success) => fp[w] \in approved
        /\ (call[w].was_approved /\ pc[w] \in ExecPcs) =>
              /\ call[w].prompts = 0
              /\ pc[w] \in {"is_rejected", "is_approved", "ra_add", "ra_discard", "apply"}
        /\ (call[w].was_approved /\ pc[w] = "idle" /\ ~result[w].raised) =>
              /\ call[w].applied
              /\ call[w].prompts = 0

C27_Witness ==
    \E w \in threads :
        /\ ~auto_approve
        /\ pc[w] = "idle"
        /\ call[w].was_approved
        /\ call[w].prompts = 0
        /\ call[w].applied
        /\ ~result[w].success
        /\ result[w].output \in {"File not found", "Failed to apply operation: save failed"}
        /\ fp[w] \in approved

\* C28: the fingerprint does not cover the sheet, so a decision on one
\* write-cell operation decides every operation that differs from it only in
\* the sheet: such an operation has the same fingerprint, is applied without a
\* prompt once that fingerprint is approved and is refused without a prompt
\* once it is rejected.
C28_SheetBlind ==
    \A w \in threads :
        pc[w] \in ExecPcs =>
            /\ \A s \in SheetArgs : fingerprint([op[w] EXCEPT !.sheet = s]) = fp[w]
            /\ call[w].was_approved =>
                  /\ call[w].prompts = 0
                  /\ pc[w] \notin PromptPcs \cup {"rr_add", "rr_discard", "return_rejected"}
            /\ call[w].was_rejected =>
                  /\ call[w].prompts = 0
                  /\ pc[w] = "is_rejected"

C28_Witness ==
    \E w \in threads :
        /\ ~auto_approve
        /\ pc[w] = "apply"
        /\ op[w].sheet = "S2"
        /\ call[w].was_approved
        /\ call[w].prompts = 0
        /\ LET f == resolve(root, op[w].path).target
           IN  /\ disk[f].cells["S1"] = IntV(1)
               /\ disk[f].cells["S2"] = NoneV

\* ------------------------------------------------------------------ the result handler, statement by statement

\* What a tool call leaves alone besides the UI thread's position.
process == << root, auto_approve, threads, cwd, args, returned >>

\* The UI thread outside its handlers; given holds the answers the user gave,
\* each with the request the app held at that moment.
HandlerIdle(given) == [at |-> "idle", answer |-> "None", given |-> given]

\* A result handler that signals the event before it assigns the result.
handler_after_signal_first(at) ==
    CASE at = "test" -> "set"
      [] at = "set" -> "assign"
      [] at = "assign" -> "clear"
      [] OTHER -> "idle"

\* The order of the statements of _handle_approval_result after its test:
\* result = ..., event.set(), _pending_approval = None.
handler_after(at) ==
    CASE at = "test" -> "assign"
      [] at = "assign" -> "set"
      [] at = "set" -> "clear"
      [] OTHER -> "idle"

\* show_approval_dialog, run by the UI thread between its handlers.
show_approval_dialog_ui(w) ==
    /\ handler.at = "idle"
    /\ show_approval_dialog(w)

\* The user dismisses the top dialog with an answer and the callback starts:
\* if self._pending_approval is not None
handle_result_test(answer) ==
    /\ handler.at = "idle"
    /\ dialogs # <<>>
    /\ dialogs' = Tail(dialogs)
    /\ handler' = IF app_pending_approval # 0
                  THEN [at |-> handler_after("test"), answer |-> answer,
                        given |-> handler.given \cup {<< app_pending_approval, answer >>}]
                  ELSE handler
    /\ UNCHANGED << process, ui, ledger, disk, requests, pending_request,
                    app_pending_approval, pc, op, fp, ret, req, result, call, affirmed >>

\* self._pending_approval.result = result is True
handle_result_assign ==
    /\ handler.at = "assign"
    /\ requests' = [requests EXCEPT ![app_pending_approval].result =
                       IF handler.answer = "True" THEN "True" ELSE "False"]
    /\ handler' = [handler EXCEPT !.at = handler_after("assign")]
    /\ UNCHANGED << process, ui, ledger, disk, pending_request, app_pending_approval,
                    dialogs, pc, op, fp, ret, req, result, call, affirmed >>

\* self._pending_approval.event.set()
handle_result_set ==
    /\ handler.at = "set"
    /\ requests' = [requests EXCEPT ![app_pending_approval].event = TRUE]
    /\ handler' = [handler EXCEPT !.at = handler_after("set")]
    /\ UNCHANGED << process, ui, ledger, disk, pending_request, app_pending_approval,
                    dialogs, pc, op, fp, ret, req, result, call, affirmed >>

\* self._pending_approval = None
handle_result_clear ==
    /\ handler.at = "clear"
    /\ app_pending_approval' = 0
    /\ handler' = HandlerIdle(handler.given)
    /\ UNCHANGED << process, ui, ledger, disk, requests, pending_request,
                    dialogs, pc, op, fp, ret, req, result, call, affirmed >>

\* One worker with the full-screen app registered and prompting.
InitSignal ==
    /\ InitState({1})
    /\ ~auto_approve
    /\ UsesDialog
    /\ cwd = root
    /\ handler = HandlerIdle({})
    /\ args = <<>>
    /\ returned = <<>>

NextSignal ==
    \/ \E w \in threads, o \in Operations : Execute(w, o)
    \/ \E w \in threads : is_rejected(w)
    \/ \E w \in threads : is_approved(w)
    \/ \E w \in threads : request_approval_dialog(w)
    \/ \E w \in threads : show_approval_dialog_ui(w)
    \/ \E w \in threads : dispatch_fails(w)
    \/ \E w \in threads, line \in Lines : terminal_fallback(w, line)
    \/ \E w \in threads : wait_signalled(w)
    \/ \E w \in threads : wait_timeout(w)
    \/ \E w \in threads : clear_pending(w)
    \/ \E w \in threads : read_result(w)
    \/ \E w \in threads : RememberApprovedAdd(w)
    \/ \E w \in threads : RememberApprovedDiscard(w)
    \/ \E w \in threads : RememberRejectedAdd(w)
    \/ \E w \in threads : RememberRejectedDiscard(w)
    \/ \E w \in threads : return_rejected(w)
    \/ \E w \in threads, lib \in LibOutcomes : apply(w, lib)
    \/ \E answer \in DialogResults : handle_result_test(answer)
    \/ handle_result_assign
    \/ handle_result_set
    \/ handle_result_clear

SpecSignal == InitSignal /\ [][NextSignal]_vars

\* C29: the result handler assigns the request's result before it signals the
\* request's event: a waiter released by the signal finds a definite True or
\* False in the request, and what its submit returns is the answer the user
\* gave to that request (approve for True, reject for False or a dismissal).
C29_AssignedBeforeSignal ==
    /\ \A i \in DOMAIN requests : requests[i].event => requests[i].result \in {"True", "False"}
    /\ \A w \in threads :
          (call[w].wait = "signalled" /\ req[w] # 0) =>
              /\ requests[req[w]].result \in {"True", "False"}
              /\ pc[w] \notin {"clear_pending", "read_result"} =>
                    /\ call[w].answer \in {"approve", "reject"}
                    /\ call[w].answer = "approve" <=> << req[w], "True" >> \in handler.given
                    /\ call[w].answer = "reject" <=>
                          \E a \in {"False", "None"} : << req[w], a >> \in handler.given

C29_Witness ==
    \E w \in threads :
        /\ pc[w] = "read_result"
        /\ call[w].wait = "signalled"
        /\ handler.at = "clear"
        /\ requests[req[w]].result = "True"
        /\ app_pending_approval = req[w]

\* ------------------------------------------------------------------ the update_xlsx_cell tool

\* The new_value arguments given to the tool: a text and a formula text.
ToolValues == {StrV("1"), StrV("=B1")}

\* The working directories the agent may be started from: the workspace root
\* or another directory (which holds none of the documents).
WorkingDirs(r) == {r, <<"home">>}

\* ws[cell].value of a workbook loaded with data_only=True: a formula written
\* by the editor has no cached value.
data_only_value(v) == IF v.t = "str" /\ v.s = "=B1" THEN NoneV ELSE v

\* update_xlsx_cell, "Get current value for diff display": Path(file_path) is
\* taken relative to the working directory; a missing file or sheet leaves
\* old_value None.
tool_old_value(d, dir, p, sheet) ==
    LET target == Normalize(<<>>, IF p.abs THEN p.parts ELSE dir \o p.parts)
        sheet_name == IF OrEmpty(sheet) = "" THEN ActiveSheet ELSE sheet
    IN  IF target \in DOMAIN d /\ d[target].exists /\ sheet_name \in Sheets
        THEN data_only_value(d[target].cells[sheet_name])
        ELSE NoneV

\* The value the cell named by a tool call holds in the workspace (None when
\* the call names no cell of the workspace).
cell_on_disk(d, r, p, sheet) ==
    LET resolved == resolve(r, p)
        sheet_name == IF OrEmpty(sheet) = "" THEN ActiveSheet ELSE sheet
    IN  IF ~resolved.raised /\ d[resolved.target].exists /\ sheet_name \in Sheets
        THEN d[resolved.target].cells[sheet_name]
        ELSE NoneV

\* The arguments of a tool call, with the cell's value when it was made.
ToolArgs(n, p, sheet, v, before) ==
    [calls |-> n, path |-> p, sheet |-> sheet, value |-> v, before |-> before]

NoToolArgs ==
    [calls |-> 0, path |-> Path(FALSE, <<>>), sheet |-> None,
     value |-> NoneV, before |-> NoneV]

\* What is kept of the tool call before the current one.
NoToolCall ==
    [prev |-> NoToolArgs, fp |-> NoFp, answer |-> "none", wrote |-> FALSE, changed |-> FALSE]

\* update_xlsx_cell(file_path, cell, new_value, sheet): read old_value, build
\* the operation with create_cell_operation and enter editor.execute.
update_xlsx_cell(w, p, sheet, v) ==
    /\ pc[w] = "idle"
    /\ args.calls < MaxToolCalls
    /\ LET o == [XlsxCellOp(p, sheet, v) EXCEPT
                    !.old_value = tool_old_value(disk, cwd, p, sheet)]
       IN  /\ args' = ToolArgs(args.calls + 1, p, sheet, v,
                               cell_on_disk(disk, root, p, sheet))
           /\ returned' = [prev |-> args, fp |-> fp[w], answer |-> call[w].answer,
                           wrote |-> call[w].applied /\ result[w].success,
                           changed |-> /\ args.calls > 0
                                       /\ cell_on_disk(disk, root, args.path, args.sheet)
                                             # args.before]
           /\ req' = [req EXCEPT ![w] = 0]
           /\ fp' = [fp EXCEPT ![w] = fingerprint(o)]
           /\ call' = [call EXCEPT ![w] = NewCall(fingerprint(o))]
           /\ IF relative_path(root, o.path).raised
              THEN /\ result' = [result EXCEPT ![w] =
                          Raised("RuntimeError: Operation outside workspace")]
                   /\ op' = op
                   /\ pc' = pc
              ELSE /\ result' = [result EXCEPT ![w] = NoResult]
                   /\ op' = [op EXCEPT ![w] = o]
                   /\ pc' = [pc EXCEPT ![w] = "is_rejected"]
    /\ UNCHANGED << root, auto_approve, threads, cwd, handler, ui, ledger, disk,
                    channel, ret, affirmed >>

\* The documents the tool is called on: one workbook, named by a relative and
\* by an absolute path.
ToolPaths == {Path(FALSE, <<"a.xlsx">>), Path(TRUE, <<"w", "a.xlsx">>)}

\* The sheet arguments of the tool calls: none (the active sheet) or a sheet.
ToolSheets == {None, "S2"}

\* One worker calling the tool with line prompts; the agent is started from
\* the workspace root or from another directory.
InitTool ==
    /\ InitState({1})
    /\ root = <<"w">>
    /\ \A f \in Files(root) : disk[f].exists
    /\ ~auto_approve
    /\ ~UsesDialog
    /\ cwd \in WorkingDirs(root)
    /\ handler = "idle"
    /\ args = NoToolArgs
    /\ returned = NoToolCall

NextTool ==
    \/ \E w \in threads, p \in ToolPaths, s \in ToolSheets, v \in ToolValues :
          update_xlsx_cell(w, p, s, v)
    \/ \E w \in threads : is_rejected(w)
    \/ \E w \in threads : is_approved(w)
    \/ \E w \in threads, line \in ConcLines : request_approval_line(w, line)
    \/ \E w \in threads : RememberApprovedAdd(w)
    \/ \E w \in threads : RememberApprovedDiscard(w)
    \/ \E w \in threads : RememberRejectedAdd(w)
    \/ \E w \in threads : RememberRejectedDiscard(w)
    \/ \E w \in threads : return_rejected(w)
    \/ \E w \in threads, lib \in LibOutcomes : apply(w, lib)

SpecTool == InitTool /\ [][NextTool]_vars

\* The current tool call repeats the one before it.
RepeatedCall ==
    /\ returned.prev.calls > 0
    /\ args.path = returned.prev.path
    /\ args.sheet = returned.prev.sheet
    /\ args.value = returned.prev.value

\* C30: update_xlsx_cell reads the cell's on-disk value into old_value, which
\* is part of the fingerprint: a call that repeats an approved call which
\* changed the cell has another fingerprint and prompts before it writes; a
\* call that repeats a call the user rejected has the same fingerprint and is
\* refused as previously rejected without a prompt.
C30_RepeatAfterChange ==
    \A w \in threads :
        (RepeatedCall /\ returned.wrote /\ returned.changed /\ ~result[w].raised) =>
            /\ fp[w] # returned.fp
            /\ ~call[w].was_approved
            /\ (pc[w] \in {"ra_add", "ra_discard", "apply"} \/ call[w].applied) =>
                  call[w].prompts = 1

C30_RepeatAfterRejection ==
    \A w \in threads :
        (RepeatedCall /\ returned.answer = "reject" /\ ~result[w].raised) =>
            /\ fp[w] = returned.fp
            /\ call[w].was_rejected
            /\ call[w].prompts = 0
            /\ pc[w] \in {"is_rejected", "idle"}
            /\ pc[w] = "idle" => result[w].output = "Operation was previously rejected."

C30_OldValueInFingerprint == C30_RepeatAfterChange /\ C30_RepeatAfterRejection

C30_Witness ==
    \E w \in threads :
        /\ RepeatedCall
        /\ returned.wrote
        /\ returned.changed
        /\ cwd # root
        /\ args.value = StrV("1")
        /\ fp[w] = returned.fp
        /\ pc[w] = "apply"
        /\ call[w].prompts = 0

\* ------------------------------------------------------------------ functions studied on their own

\* Everything but the arguments and the result of the function studied.
program ==
    << root, auto_approve, callback_enabled, terminal_console, app_reference,
       ui_closed, approved, rejected, disk, requests, pending_request,
       app_pending_approval, dialogs, threads, pc, op, fp, ret, req, result, call,
       affirmed, cwd, handler >>

\* The program at rest while one of its functions is called directly.
AtRest ==
    /\ InitState({1})
    /\ root = <<"w">>
    /\ ~auto_approve
    /\ ~callback_enabled
    /\ \A f \in Files(root) : disk[f].exists
    /\ cwd = root
    /\ handler = "idle"

\* DocumentOperation with all its fields.
DocumentOperations ==
    [ type : {"xlsx_write_cell"},
      path : {Path(FALSE, <<"a.xlsx">>)},
      description : {"", "d"},
      old_text : {None, ""},
      new_text : {None},
      context_before : {None, "before"},
      context_after : {None},
      location : {None, "Paragraph 3"},
      sheet : {None, "S1"},
      cell : {None, "A1"},
      cell_range : {None},
      old_value : {NoneV, StrV(""), IntV(1)},
      new_value : {IntV(1)},
      metadata : {<<>>, <<"m">>} ]

\* Two operations are given to the tracker.
InitFingerprint ==
    /\ AtRest
    /\ args \in DocumentOperations \X DocumentOperations
    /\ returned = <<>>

\* tracker.fingerprint(a) and tracker.fingerprint(b)
CallFingerprint ==
    /\ returned = <<>>
    /\ returned' = << fingerprint(args[1]), fingerprint(args[2]) >>
    /\ UNCHANGED << program, args >>

NextFingerprint == CallFingerprint

SpecFingerprint == InitFingerprint /\ [][NextFingerprint]_vars

\* The seven hashed fields of an operation.
SevenFields(o) ==
    << o.type, o.path, o.old_text, o.new_text, o.cell, o.old_value, o.new_value >>

\* An operation with "" for each absent text field and absent old or new value.
AbsentAsEmpty(o) ==
    [o EXCEPT !.old_text = OrEmpty(@), !.new_text = OrEmpty(@), !.cell = OrEmpty(@),
              !.old_value = IF @ = NoneV THEN StrV("") ELSE @,
              !.new_value = IF @ = NoneV THEN StrV("") ELSE @]

\* C23: two operations equal on (type, path, old_text, new_text, cell,
\* old_value, new_value) have equal fingerprints whatever their description,
\* location, context, sheet or metadata, and an absent field hashes like the
\* empty string.
C23_FingerprintStable ==
    returned # <<>> =>
        /\ SevenFields(args[1]) = SevenFields(args[2]) => returned[1] = returned[2]
        /\ SevenFields(AbsentAsEmpty(args[1])) = SevenFields(AbsentAsEmpty(args[2])) =>
              returned[1] = returned[2]
        /\ fingerprint(AbsentAsEmpty(args[1])) = returned[1]

C23_Witness ==
    /\ returned # <<>>
    /\ SevenFields(AbsentAsEmpty(args[1])) = SevenFields(AbsentAsEmpty(args[2]))
    /\ args[1].old_text = None /\ args[2].old_text = ""
    /\ args[1].old_value = NoneV /\ args[2].old_value = StrV("")
    /\ args[1].sheet # args[2].sheet
    /\ args[1].description # args[2].description
    /\ args[1].location # args[2].location
    /\ args[1].context_before # args[2].context_before
    /\ args[1].metadata # args[2].metadata
    /\ returned[1] = returned[2]

\* ------------------------------------------------------------------ range writes

\* A cell coordinate, as coordinate_from_string and column_index_from_string
\* give it: "B2" is row 2, column 2.
Coordinate(row, col) == [row |-> row, col |-> col]

\* An absent cell reference, and an absent start_row or start_col.
NoCell == Coordinate(0, 0)

NoIndex == 0

\* The start cells offered: A1, B1, C1, A2, B2, C2.
StartCells == { Coordinate(r, c) : r \in 1..2, c \in 1..3 }

\* One element of the values list: a scalar or a list of scalars.
Scalar(v) == [list |-> FALSE, items |-> << v >>]

Row(items) == [list |-> TRUE, items |-> items]

\* The values written: a flat list, lists of rows, a mixed list, one with an
\* empty row.
RangeValues ==
    { << Scalar("a") >>,
      << Scalar("a"), Scalar("b") >>,
      << Row(<< "a", "b" >>) >>,
      << Row(<< "a", "b" >>), Row(<< "c", "d" >>) >>,
      << Row(<< "a" >>), Scalar("c") >>,
      << Row(<<>>), Row(<< "c", "d" >>) >> }

\* The rows and columns of the modelled worksheet.
GridRows == 1..3

GridCols == 1..4

EmptyGrid == [r \in GridRows |-> [c \in GridCols |-> ""]]

\* How the range operation is built: by the update_xlsx_range tool, or by a
\* caller of the editor that sets start_row/start_col, or one that sets cell.
Builders == {"tool", "start_row", "cell"}

RECURSIVE MaxWidth(_)
\* max(len(row) if isinstance(row, list) else 1 for row in values)
MaxWidth(values) ==
    IF values = <<>> THEN 0
    ELSE LET w == IF Head(values).list THEN Len(Head(values).items) ELSE 1
             rest == MaxWidth(Tail(values))
         IN  IF w > rest THEN w ELSE rest

\* XlsxEditor.create_range_operation: cell_range, sheet and the values; cell
\* and start_row keep their defaults.
create_range_operation(cell_range, new_values) ==
    [cell_range |-> cell_range, cell |-> NoCell, start_row |-> NoIndex,
     start_col |-> NoIndex, new_value |-> new_values]

\* update_xlsx_range: the range is computed from start_cell and the dimensions
\* of the values and handed to create_range_operation.
update_xlsx_range(start_cell, values) ==
    LET rows == Len(values)
        cols == IF values # <<>> THEN MaxWidth(values) ELSE 1
    IN  create_range_operation(
            << start_cell, Coordinate(start_cell.row + rows - 1, start_cell.col + cols - 1) >>,
            values)

\* The operation each builder makes for a start cell and values.
RangeOperation(how, start_cell, values) ==
    CASE how = "tool" -> update_xlsx_range(start_cell, values)
      [] how = "start_row" ->
            [cell_range |-> <<>>, cell |-> NoCell,
             start_row |-> start_cell.row, start_col |-> start_cell.col,
             new_value |-> values]
      [] OTHER ->
            [cell_range |-> <<>>, cell |-> start_cell, start_row |-> NoIndex,
             start_col |-> NoIndex, new_value |-> values]

\* _write_range: where the writing starts.
range_start(o) ==
    IF o.start_row # NoIndex
    THEN Coordinate(o.start_row, IF o.start_col = NoIndex THEN 1 ELSE o.start_col)
    ELSE IF o.cell # NoCell
    THEN o.cell
    ELSE Coordinate(1, 1)

\* _write_range: the worksheet after the loop over new_value.
write_range(grid, o) ==
    LET start == range_start(o)
        values == o.new_value
    IN  [r \in GridRows |-> [c \in GridCols |->
            LET i == r - start.row + 1
                j == c - start.col + 1
            IN  IF r >= start.row /\ i <= Len(values)
                THEN IF values[i].list
                     THEN IF c >= start.col /\ j <= Len(values[i].items)
                          THEN values[i].items[j]
                          ELSE grid[r][c]
                     ELSE IF c = start.col THEN values[i].items[1] ELSE grid[r][c]
                ELSE grid[r][c]]]

\* A start cell, the values and the way the operation is built are chosen.
InitRange ==
    /\ AtRest
    /\ args \in [how : Builders, start_cell : StartCells, values : RangeValues]
    /\ returned = <<>>

\* The approved range operation is applied to an empty worksheet.
ApplyRange ==
    /\ returned = <<>>
    /\ returned' = write_range(EmptyGrid, RangeOperation(args.how, args.start_cell, args.values))
    /\ UNCHANGED << program, args >>

NextRange == ApplyRange

SpecRange == InitRange /\ [][NextRange]_vars

\* C22: an approved range write puts the value at row i, column j of the
\* values into the cell i rows below and j columns to the right of the start
\* cell, a scalar element into the start column, and nothing elsewhere; for
\* every start cell.
C22_RangeAtStart ==
    returned # <<>> =>
        \A r \in GridRows, c \in GridCols :
            LET i == r - args.start_cell.row + 1
                j == c - args.start_cell.col + 1
                inside == /\ i \in 1..Len(args.values)
                          /\ j \in 1..(IF args.values[i].list
                                       THEN Len(args.values[i].items) ELSE 1)
            IN  returned[r][c] = IF inside THEN args.values[i].items[j] ELSE ""

C22_Witness ==
    /\ returned # <<>>
    /\ args.how = "tool"
    /\ args.start_cell = Coordinate(2, 2)
    /\ args.values = << Row(<< "a", "b" >>), Row(<< "c", "d" >>) >>
    /\ returned[1][1] = "a"
    /\ returned[2][2] = "d"
    /\ returned[3][3] = ""

\* ------------------------------------------------------------------ docx replace-text

\* Texts are sequences of characters.
StartsWith(text, pat) ==
    /\ Len(text) >= Len(pat)
    /\ SubSeq(text, 1, Len(pat)) = pat

RECURSIVE Contains(_, _)
\* pat in text
Contains(text, pat) ==
    \/ StartsWith(text, pat)
    \/ (text # <<>> /\ Contains(Tail(text), pat))

RECURSIVE Replace(_, _, _)
\* text.replace(pat, new) for a non-empty pat: leftmost occurrences, not overlapping
Replace(text, pat, new) ==
    IF text = <<>> THEN <<>>
    ELSE IF StartsWith(text, pat)
         THEN new \o Replace(SubSeq(text, Len(pat) + 1, Len(text)), pat, new)
         ELSE << Head(text) >> \o Replace(Tail(text), pat, new)

RECURSIVE ParaText(_)
\* para.text: the texts of the runs joined
ParaText(runs) ==
    IF runs = <<>> THEN <<>> ELSE Head(runs) \o ParaText(Tail(runs))

\* The text searched for and its replacement.
OldText == << "a", "b" >>

NewText == << "x" >>

\* The paragraphs offered, as their runs: "ab" in one run, "ab" split over two
\* runs, a paragraph without the text, and "ab" in one run followed by "ab"
\* split over two.
Paragraphs ==
    { << << "a", "b" >> >>,
      << << "a" >>, << "b" >> >>,
      << << "c" >> >>,
      << << "a", "b" >>, << "a" >>, << "b" >> >> }

\* A document: the body's paragraphs and the paragraphs of one table cell.
Documents ==
    [ body : {<<>>} \cup { << p >> : p \in Paragraphs }
                    \cup { << p, q >> : p \in Paragraphs, q \in Paragraphs },
      table : {<<>>} \cup { << p >> : p \in Paragraphs } ]

RECURSIVE replace_in_runs(_, _, _)
\* for run in para.runs: if old_text in run.text: run.text = run.text.replace(...);
\* replacements += 1
replace_in_runs(runs, old, new) ==
    IF runs = <<>> THEN [runs |-> <<>>, count |-> 0]
    ELSE LET rest == replace_in_runs(Tail(runs), old, new)
         IN  IF Contains(Head(runs), old)
             THEN [runs |-> << Replace(Head(runs), old, new) >> \o rest.runs,
                   count |-> rest.count + 1]
             ELSE [runs |-> << Head(runs) >> \o rest.runs, count |-> rest.count]

\* The fallback of _replace_text: the first run takes the replaced text of the
\* whole paragraph, the other runs are emptied.
rebuild_paragraph(runs, old, new) ==
    IF runs = <<>> THEN runs
    ELSE << Replace(ParaText(runs), old, new) >> \o [i \in 1..(Len(runs) - 1) |-> <<>>]

RECURSIVE replace_in_body(_, _, _, _)
\* _replace_text, the loop over doc.paragraphs; replacements counts over the
\* whole document.
replace_in_body(paras, old, new, replacements) ==
    IF paras = <<>> THEN [paras |-> <<>>, count |-> replacements]
    ELSE LET para == Head(paras)
             in_runs == replace_in_runs(para, old, new)
             counted == replacements + in_runs.count
             fallback == counted = 0 /\ Contains(ParaText(in_runs.runs), old)
             done == IF ~Contains(ParaText(para), old)
                     THEN [runs |-> para, count |-> replacements]
                     ELSE IF fallback
                     THEN [runs |-> rebuild_paragraph(in_runs.runs, old, new),
                           count |-> counted + 1]
                     ELSE [runs |-> in_runs.runs, count |-> counted]
             rest == replace_in_body(Tail(paras), old, new, done.count)
         IN  [paras |-> << done.runs >> \o rest.paras, count |-> rest.count]

RECURSIVE replace_in_tables(_, _, _, _)
\* _replace_text, the loop over the paragraphs of the table cells: runs only.
replace_in_tables(paras, old, new, replacements) ==
    IF paras = <<>> THEN [paras |-> <<>>, count |-> replacements]
    ELSE LET para == Head(paras)
             in_runs == replace_in_runs(para, old, new)
             done == IF ~Contains(ParaText(para), old)
                     THEN [runs |-> para, count |-> replacements]
                     ELSE [runs |-> in_runs.runs, count |-> replacements + in_runs.count]
             rest == replace_in_tables(Tail(paras), old, new, done.count)
         IN  [paras |-> << done.runs >> \o rest.paras, count |-> rest.count]

\* DocxEditor._replace_text on an existing document: the result, whether
\* doc.save was called, and the document on disk afterwards.
replace_text(doc, old, new) ==
    LET body == replace_in_body(doc.body, old, new, 0)
        table == replace_in_tables(doc.table, old, new, body.count)
    IN  IF table.count = 0
        THEN [success |-> FALSE, output |-> "Text not found", saved |-> FALSE,
              replacements |-> 0, doc |-> doc]
        ELSE [success |-> TRUE, output |-> "Replaced", saved |-> TRUE,
              replacements |-> table.count,
              doc |-> [body |-> body.paras, table |-> table.paras]]

\* A document is on disk and a replace-text operation on it is approved.
InitDocx ==
    /\ AtRest
    /\ args \in Documents
    /\ returned = <<>>

ApplyReplaceText ==
    /\ returned = <<>>
    /\ returned' = replace_text(args, OldText, NewText)
    /\ UNCHANGED << program, args >>

NextDocx == ApplyReplaceText

SpecDocx == InitDocx /\ [][NextDocx]_vars

\* old_text occurs in some paragraph of the document.
Occurs(doc, old) ==
    \/ \E i \in DOMAIN doc.body : Contains(ParaText(doc.body[i]), old)
    \/ \E i \in DOMAIN doc.table : Contains(ParaText(doc.table[i]), old)

\* C24: an approved replace-text replaces old_text by new_text in every
\* paragraph of the body and of the table cells whose text contains it, inside
\* one run or across runs, and saves; it fails, without saving, exactly when
\* old_text occurs nowhere.
C24_ReplaceEverywhere ==
    returned # <<>> =>
        /\ returned.success <=> Occurs(args, OldText)
        /\ returned.saved <=> Occurs(args, OldText)
        /\ \A i \in DOMAIN args.body :
              ParaText(returned.doc.body[i]) = Replace(ParaText(args.body[i]), OldText, NewText)
        /\ \A i \in DOMAIN args.table :
              ParaText(returned.doc.table[i]) = Replace(ParaText(args.table[i]), OldText, NewText)

C24_Witness ==
    /\ returned # <<>>
    /\ args.body = << << << "a", "b" >> >>, << << "a" >>, << "b" >> >> >>
    /\ args.table = <<>>
    /\ returned.success
    /\ ParaText(returned.doc.body[1]) = << "x" >>
    /\ ParaText(returned.doc.body[2]) = << "a", "b" >>

\* ------------------------------------------------------------------ diff rendering

\* An absent (None) text among texts that are sequences of characters.
NoText == << None >>

\* Python truthiness of an optional text: None and "" are falsy.
TextSet(text) == text # NoText /\ text # <<>>

NewLine == "\n"

RECURSIVE FirstLine(_)
\* The characters before the first line break.
FirstLine(text) ==
    IF text = <<>> \/ Head(text) = NewLine THEN <<>>
    ELSE << Head(text) >> \o FirstLine(Tail(text))

RECURSIVE SplitLines(_)
\* str.splitlines(): "" gives no line, a trailing line break adds no line.
SplitLines(text) ==
    IF text = <<>> THEN <<>>
    ELSE LET line == FirstLine(text)
             rest == SubSeq(text, Len(line) + 2, Len(text))
         IN  << line >> \o SplitLines(rest)

\* The lines of a text, each with the tag its colour and prefix stand for.
Tagged(tag, lines) == [i \in 1..Len(lines) |-> [tag |-> tag, text |-> lines[i]]]

\* A rendered string as the parts joined by "\n": a part without lines is an
\* empty line.
Part(lines) == IF lines = <<>> THEN << [tag |-> "blank", text |-> <<>>] >> ELSE lines

\* diff_display.render_text_diff(old_text, new_text)
render_text_diff(old_text, new_text) ==
    IF old_text = NoText /\ new_text = NoText
    THEN << [tag |-> "none", text |-> <<>>] >>
    ELSE IF old_text = NoText
    THEN Tagged("added", SplitLines(new_text))
    ELSE IF new_text = NoText
    THEN Tagged("removed", SplitLines(old_text))
    ELSE Tagged("removed", SplitLines(old_text)) \o Tagged("added", SplitLines(new_text))

\* DocxEditor.render_diff(operation): what the approval prompt of the docx
\* editor shows.
DocxEditor_render_diff(o) ==
    (IF TextSet(o.location) THEN << [tag |-> "location", text |-> o.location] >> ELSE <<>>)
    \o (IF TextSet(o.context_before)
        THEN Tagged("context", SplitLines(o.context_before)) ELSE <<>>)
    \o Part(render_text_diff(o.old_text, o.new_text))
    \o (IF TextSet(o.context_after)
        THEN Tagged("context", SplitLines(o.context_after)) ELSE <<>>)

\* diff_display.render_diff(operation) for a docx operation.
render_diff(o) ==
    IF TextSet(o.location)
    THEN << [tag |-> "location", text |-> o.location] >>
         \o Part(render_text_diff(o.old_text, o.new_text))
    ELSE (IF TextSet(o.context_before)
          THEN Tagged("context", SplitLines(o.context_before)) ELSE <<>>)
         \o Part(render_text_diff(o.old_text, o.new_text))
         \o (IF TextSet(o.context_after)
             THEN Tagged("context", SplitLines(o.context_after)) ELSE <<>>)

\* The two renderers of a text-family operation.
Renderers == {"DocxEditor.render_diff", "diff_display.render_diff"}

\* The text-family operations rendered.
TextOperations ==
    [ old_text : {NoText, <<>>, << "a" >>, << "a", NewLine, "b" >>},
      new_text : {NoText, << "c" >>, << "c", NewLine, "d", NewLine >>},
      location : {NoText, <<>>, << "P" >>},
      context_before : {NoText, << "e" >>},
      context_after : {NoText, << "f", NewLine, "g" >>} ]

\* An operation and the renderer it is given to.
InitDiff ==
    /\ AtRest
    /\ args \in [renderer : Renderers, operation : TextOperations]
    /\ returned = <<>>

RenderDiff ==
    /\ returned = <<>>
    /\ returned' = IF args.renderer = "DocxEditor.render_diff"
                   THEN DocxEditor_render_diff(args.operation)
                   ELSE render_diff(args.operation)
    /\ UNCHANGED << program, args >>

NextDiff == RenderDiff

SpecDiff == InitDiff /\ [][NextDiff]_vars

\* A rendered line that carries text of the operation.
CarriesText(line) == line.tag \notin {"blank", "none"}

\* The lines of an optional text (none when it is absent).
LinesOf(text) == IF text = NoText THEN <<>> ELSE SplitLines(text)

\* C25: the rendered diff of a text-family operation lists every old line as
\* removed and then every new line as added (only additions when old_text is
\* absent, only deletions when new_text is absent); a location marker line
\* comes first when location is set, and the context_before/context_after
\* lines are emitted, around the diff, only when location is not set.
C25_RenderedDiff ==
    returned # <<>> =>
        LET o == args.operation
            marker == IF TextSet(o.location)
                      THEN << [tag |-> "location", text |-> o.location] >> ELSE <<>>
            before == IF ~TextSet(o.location) /\ TextSet(o.context_before)
                      THEN Tagged("context", SplitLines(o.context_before)) ELSE <<>>
            after == IF ~TextSet(o.location) /\ TextSet(o.context_after)
                     THEN Tagged("context", SplitLines(o.context_after)) ELSE <<>>
            diff == Tagged("removed", LinesOf(o.old_text)) \o Tagged("added", LinesOf(o.new_text))
        IN  SelectSeq(returned, CarriesText) = marker \o before \o diff \o after

C25_Witness ==
    /\ returned # <<>>
    /\ args.renderer = "DocxEditor.render_diff"
    /\ args.operation.location = << "P" >>
    /\ args.operation.context_before = << "e" >>
    /\ args.operation.old_text = << "a", NewLine, "b" >>
    /\ args.operation.new_text = << "c" >>
    /\ returned[1].tag = "location"
    /\ returned[2] = [tag |-> "context", text |-> << "e" >>]
    /\ returned[3] = [tag |-> "removed", text |-> << "a" >>]
    /\ returned[5] = [tag |-> "added", text |-> << "c" >>]

====
